---- MODULE Spec2Model ----
(***************************************************************************)
(* piicatcher/scanner.py: the three scanners (RegexScanner, NERScanner,    *)
(* ColumnNameScanner) as a state machine of constructions and scan calls.  *)
(* Texts are TLA+ strings; a character is a string of length one.          *)
(***************************************************************************)
EXTENDS Integers, Sequences, FiniteSets

\* ------------------------------------------------------------------ bounds
\* The longest input text, counted in fragments of Fragments.
MaxParts == 2
\* The most matches one CommonRegex attribute holds for a text.
MaxMatches == 2
\* The most entities the NLP pipeline returns for a text.
MaxEnts == 3

\* ------------------------------------------------------------- vocabulary
\* piicatcher.piitypes.PiiTypes, the members scanner.py names.
PiiTypes ==
  { "PERSON", "EMAIL", "BIRTH_DATE", "GENDER", "NATIONALITY", "ADDRESS",
    "USER_NAME", "PASSWORD", "SSN", "PHONE", "LOCATION", "CREDIT_CARD" }

\* ------------------------------------------------------------ the re module
\* The ASCII capital letters and their lower-case forms.
LowerOf ==
  [c \in { "A", "B", "C", "D", "E", "F", "G", "H", "I", "J", "K", "L", "M",
           "N", "O", "P", "Q", "R", "S", "T", "U", "V", "W", "X", "Y", "Z" } |->
     CASE c = "A" -> "a" [] c = "B" -> "b" [] c = "C" -> "c" [] c = "D" -> "d"
       [] c = "E" -> "e" [] c = "F" -> "f" [] c = "G" -> "g" [] c = "H" -> "h"
       [] c = "I" -> "i" [] c = "J" -> "j" [] c = "K" -> "k" [] c = "L" -> "l"
       [] c = "M" -> "m" [] c = "N" -> "n" [] c = "O" -> "o" [] c = "P" -> "p"
       [] c = "Q" -> "q" [] c = "R" -> "r" [] c = "S" -> "s" [] c = "T" -> "t"
       [] c = "U" -> "u" [] c = "V" -> "v" [] c = "W" -> "w" [] c = "X" -> "x"
       [] c = "Y" -> "y" [] c = "Z" -> "z"]

\* LowerChar as it would be without re.IGNORECASE: characters compared as they are.
LowerCharExact(c) == c

\* The lower-case form of one character, as re.IGNORECASE compares characters
\* (over ASCII: a character that is no capital letter is its own lower case).
LowerChar(c) == IF c \in DOMAIN LowerOf THEN LowerOf[c] ELSE c

\* The s[i] of Python, 1-based: a string of length one.
CharAt(s, i) == SubSeq(s, i, i)

\* The pieces of a pattern: "^", "$", ".*" and a group of literal alternatives.
Bol == [k |-> "bol", alts |-> {}]
Eol == [k |-> "eol", alts |-> {}]
DotStar == [k |-> "dotstar", alts |-> {}]
Alt(S) == [k |-> "alt", alts |-> S]

\* re.compile(pattern, flags): the pattern's pieces and whether re.IGNORECASE is set.
compile(items, ignorecase) == [items |-> items, ignorecase |-> ignorecase]

\* Whether the characters of text at i.. spell the literal a: character by
\* character, each pair compared in lower case when re.IGNORECASE is set.
LiteralAt(p, text, i, a) ==
  /\ i + Len(a) - 1 <= Len(text)
  /\ \A j \in 1..Len(a) :
       IF p.ignorecase
         THEN LowerChar(CharAt(text, i + j - 1)) = LowerChar(CharAt(a, j))
         ELSE CharAt(text, i + j - 1) = CharAt(a, j)

\* DotEnd as it would be under re.DOTALL: "." takes newlines too.
DotEndAll(text, i) == IF i > Len(text) THEN i ELSE Len(text) + 1

\* The position after the longest run of non-newline characters from i
\* ("." does not match "\n": no re.DOTALL).
RECURSIVE DotEnd(_, _)
DotEnd(text, i) ==
  IF i > Len(text) \/ CharAt(text, i) = "\n" THEN i ELSE DotEnd(text, i + 1)

\* Whether the pieces k.. of p match text from position i on (backtracking search).
\* "^" holds only at the start (no re.MULTILINE); "$" holds at the end and just
\* before a newline that is the last character.
RECURSIVE MatchFrom(_, _, _, _)
MatchFrom(p, k, text, i) ==
  IF k > Len(p.items) THEN TRUE
  ELSE LET it == p.items[k] IN
    CASE it.k = "bol" -> i = 1 /\ MatchFrom(p, k + 1, text, i)
      [] it.k = "eol" ->
           /\ \/ i = Len(text) + 1
              \/ i = Len(text) /\ CharAt(text, i) = "\n"
           /\ MatchFrom(p, k + 1, text, i)
      [] it.k = "dotstar" ->
           \E j \in i..DotEnd(text, i) : MatchFrom(p, k + 1, text, j)
      [] it.k = "alt" ->
           \E a \in it.alts :
             LiteralAt(p, text, i, a) /\ MatchFrom(p, k + 1, text, i + Len(a))

\* match as Pattern.search would do it: a match that may start anywhere.
search(p, text) == \E i \in 1..(Len(text) + 1) : MatchFrom(p, 1, text, i)

\* Pattern.match(text): a match that starts at the first character; it need not
\* reach the end of text. TRUE stands for a match object, FALSE for None.
match(p, text) == MatchFrom(p, 1, text, 1)

\* ------------------------------------------------------ ColumnNameScanner
\* "^.*(a|b|...).*$", the shape of ten of the eleven rule-table patterns.
Anywhere(alts) == <<Bol, DotStar, Alt(alts), DotStar, Eol>>

\* "^.*(user|id|name).*$": the USER_NAME pattern with its group misplaced.
regex_USER_NAME_flat == compile(Anywhere({ "user", "id", "name" }), TRUE)

\* ColumnNameScanner.regex[PiiTypes.USER_NAME]: "^.*user(id|name|).*$"
regex_USER_NAME ==
  compile(<<Bol, DotStar, Alt({ "user" }), Alt({ "id", "name", "" }), DotStar, Eol>>,
          TRUE)

\* ColumnNameScanner.regex: the class-level rule table, a dict in insertion order.
RegexTable ==
  << [type |-> "PERSON", pattern |-> compile(Anywhere(
        { "firstname", "fname", "lastname", "lname", "fullname", "maidenname",
          "_name", "nickname", "name_suffix", "name" }), TRUE)],
     [type |-> "EMAIL", pattern |-> compile(Anywhere(
        { "email", "e-mail", "mail" }), TRUE)],
     [type |-> "BIRTH_DATE", pattern |-> compile(Anywhere(
        { "date_of_birth", "dateofbirth", "dob", "birthday", "date_of_death",
          "dateofdeath" }), TRUE)],
     [type |-> "GENDER", pattern |-> compile(Anywhere({ "gender" }), TRUE)],
     [type |-> "NATIONALITY", pattern |-> compile(Anywhere({ "nationality" }), TRUE)],
     [type |-> "ADDRESS", pattern |-> compile(Anywhere(
        { "addr", "state", "county", "country", "zipcode", "postal", "zone",
          "borough", "line1", "line_", "line2", "pincode", "landmark",
          "contact" }), TRUE)],
     [type |-> "USER_NAME", pattern |-> regex_USER_NAME],
     [type |-> "PASSWORD", pattern |-> compile(Anywhere(
        { "pass", "access_token" }), TRUE)],
     [type |-> "SSN", pattern |-> compile(Anywhere(
        { "ssn", "social", "aadhar", "adhaar", "aadhaar", "pan" }), TRUE)],
     [type |-> "PHONE", pattern |-> compile(Anywhere(
        { "phone", "mobile", "mob_" }), TRUE)],
     [type |-> "LOCATION", pattern |-> compile(Anywhere(
        { "location", "lat", "lon" }), TRUE)] >>

\* Python's None.
None == [none |-> TRUE]
\* An instance that has not been constructed.
Unbuilt == [unbuilt |-> TRUE]
\* No call has returned to the caller.
NoCall == [scanner |-> "none"]

\* The names of the ColumnNameScanner instances a program holds.
Instances == { "s1", "s2" }

\* The exclude_regex tuples a caller passes to ColumnNameScanner.__init__:
\* the default (), the one-element tuples of a pattern source, here parsed
\* into pieces, ("^user_.*$",), ("user",) and ("email",), and a tuple of two,
\* ("user", "email"), of which only the first element is read.
ExcludeArgs ==
  { <<>>,
    << <<Bol, Alt({ "user_" }), DotStar, Eol>> >>,
    << <<Alt({ "user" })>> >>,
    << <<Alt({ "email" })>> >>,
    << <<Alt({ "user" })>>, <<Alt({ "email" })>> >> }

\* The pieces input texts are made of.
Fragments == { "user_", "email", "fname", "Phone", "x", "\n" }

RECURSIVE TextsOf(_)
TextsOf(n) ==
  IF n = 0 THEN { "" }
  ELSE LET S == TextsOf(n - 1) IN S \cup { s \o f : s \in S, f \in Fragments }

\* The input texts: up to MaxParts fragments in a row.
Texts == TextsOf(MaxParts)

\* The texts handed to RegexScanner.scan.
RegexTexts == { "", "hello world", "jane@example.com 555-123-4567" }

\* The CommonRegex attributes RegexScanner.scan reads.
Attrs == { "phones", "emails", "credit_cards", "street_addresses" }

\* The entity labels of the NLP pipeline that the model's documents carry.
Labels == { "PERSON", "GPE", "DATE", "ORG", "MONEY" }

RECURSIVE SeqsUpTo(_, _)
SeqsUpTo(S, n) ==
  IF n = 0 THEN { <<>> }
  ELSE LET T == SeqsUpTo(S, n - 1) IN T \cup { Append(t, x) : t \in T, x \in S }

\* doc.ents of a document, as the sequence of the entities' label_.
Docs == SeqsUpTo(Labels, MaxEnts)

\* The text whose first result a caller keeps, to compare later results with.
WatchTexts == { "user_email" }

VARIABLES
  regex,            \* ColumnNameScanner.regex, the rule table shared by all instances
  _exclude_regex,   \* instance -> its compiled exclusion pattern, None, or Unbuilt
  nlp,              \* NERScanner.nlp: whether the language model is loaded
  call,             \* the call that has just returned, with its result, or NoCall
  kept              \* a result the caller has kept from an earlier call, or NoCall

vars == <<regex, _exclude_regex, nlp, call, kept>>

\* ------------------------------------------------------------ RegexScanner
\* CommonRegex(text): found[a] is the number of matches the library's pattern for
\* attribute a has in text. The constructor fills the attributes with the lists of
\* matches only "if text:"; for the empty text every attribute stays the bound
\* method that would compute the list.
CommonRegex(text, found) ==
  [a \in Attrs |->
     IF text # "" THEN [kind |-> "list", len |-> found[a]]
     ELSE [kind |-> "method", len |-> 0]]

\* Python's truth value of an attribute: a list is true when it is not empty, a
\* bound method always.
Truthy(v) == v.kind = "method" \/ v.len > 0

\* RegexScanner.scan(text): the four ifs, each appending one PiiTypes member.
RegexScan(text, found) ==
  LET regex_result == CommonRegex(text, found)
      t0 == <<>>
      t1 == IF Truthy(regex_result["phones"]) THEN Append(t0, "PHONE") ELSE t0
      t2 == IF Truthy(regex_result["emails"]) THEN Append(t1, "EMAIL") ELSE t1
      t3 == IF Truthy(regex_result["credit_cards"])
              THEN Append(t2, "CREDIT_CARD") ELSE t2
      t4 == IF Truthy(regex_result["street_addresses"])
              THEN Append(t3, "ADDRESS") ELSE t3
  IN t4

\* RegexScanner.scan(text); no pattern of the library matches in the empty text.
RegexScanner_scan(text, found) ==
  /\ call = NoCall
  /\ text = "" => \A a \in Attrs : found[a] = 0
  /\ call' = [scanner |-> "RegexScanner", text |-> text, found |-> found,
              types |-> RegexScan(text, found)]
  /\ UNCHANGED <<regex, _exclude_regex, nlp, kept>>

\* -------------------------------------------------------------- NERScanner
\* The loop of NERScanner.scan over doc.ents, from the n-th entity on.
RECURSIVE NERLoop(_, _, _)
NERLoop(ents, n, types) ==
  IF n > Len(ents) THEN types
  ELSE LET label_ == ents[n]
           t1 == IF label_ = "PERSON" THEN types \cup { "PERSON" } ELSE types
           t2 == IF label_ = "GPE" THEN t1 \cup { "LOCATION" } ELSE t1
           t3 == IF label_ = "DATE" THEN t2 \cup { "BIRTH_DATE" } ELSE t2
       IN NERLoop(ents, n + 1, t3)

\* The scan with a return inside the loop: only the first entity counts.
NERScanFirst(ents) == IF ents = <<>> THEN {} ELSE NERLoop(<<ents[1]>>, 1, {})

\* NERScanner.scan(text), for the entities self.nlp(text) holds: list(types), a
\* list without repeats, held as the set of its elements.
NERScan(ents) == NERLoop(ents, 1, {})

\* NERScanner.__init__: spacy.load("en_core_web_sm")
NERScanner__init__ ==
  /\ call = NoCall
  /\ nlp = "unloaded"
  /\ nlp' = "en_core_web_sm"
  /\ UNCHANGED <<regex, _exclude_regex, call, kept>>

\* NERScanner.scan(text), where ents is doc.ents of self.nlp(text)
NERScanner_scan(ents) ==
  /\ call = NoCall
  /\ nlp = "en_core_web_sm"
  /\ call' = [scanner |-> "NERScanner", ents |-> ents, types |-> NERScan(ents)]
  /\ UNCHANGED <<regex, _exclude_regex, nlp, kept>>

\* ------------------------------------------------------ ColumnNameScanner
\* The loop body of ColumnNameScanner.scan, for the n-th entry of the rule table on:
\* with an exclusion pattern the category is added when its pattern matches and
\* the exclusion pattern does not; without one, when its pattern matches.
RECURSIVE ScanLoop(_, _, _, _, _)
ScanLoop(tbl, excl, text, n, types) ==
  IF n > Len(tbl) THEN types
  ELSE LET pii_type == tbl[n].type
           hit == IF excl # None
                    THEN match(tbl[n].pattern, text) /\ match(excl, text) = FALSE
                    ELSE match(tbl[n].pattern, text)
       IN ScanLoop(tbl, excl, text, n + 1,
                   IF hit THEN types \cup { pii_type } ELSE types)

\* The scan with a loop that stops at the first category it adds.
ColumnNameScanFirstHit(tbl, excl, text) ==
  LET hits == { n \in 1..Len(tbl) : ScanLoop(<<tbl[n]>>, excl, text, 1, {}) # {} }
  IN IF hits = {} THEN {}
     ELSE { tbl[CHOOSE n \in hits : \A m \in hits : n <= m].type }

\* The scan with the exclusion pattern never consulted.
ColumnNameScanNoVeto(tbl, excl, text) == ScanLoop(tbl, None, text, 1, {})

\* ColumnNameScanner.scan(text): list(types), a list without repeats in no
\* particular order, held as the set of its elements.
ColumnNameScan(tbl, excl, text) == ScanLoop(tbl, excl, text, 1, {})

\* __init__ with the exclusion pattern stored on the class: every instance
\* constructed so far gets the pattern of the newest one.
ColumnNameScanner__init__shared(s, exclude_regex) ==
  /\ call = NoCall
  /\ _exclude_regex[s] = Unbuilt
  /\ _exclude_regex' =
       [t \in Instances |->
          IF t = s \/ _exclude_regex[t] # Unbuilt
            THEN IF Len(exclude_regex) > 0
                   THEN compile(exclude_regex[1], TRUE) ELSE None
            ELSE Unbuilt]
  /\ UNCHANGED <<regex, nlp, call, kept>>

\* ColumnNameScanner.__init__(exclude_regex): only exclude_regex[0] is compiled.
ColumnNameScanner__init__(s, exclude_regex) ==
  /\ call = NoCall
  /\ _exclude_regex[s] = Unbuilt
  /\ _exclude_regex' =
       [_exclude_regex EXCEPT ![s] =
          IF Len(exclude_regex) > 0 THEN compile(exclude_regex[1], TRUE) ELSE None]
  /\ UNCHANGED <<regex, nlp, call, kept>>

\* ColumnNameScanner.scan(text) on instance s
ColumnNameScanner_scan(s, text) ==
  /\ call = NoCall
  /\ _exclude_regex[s] # Unbuilt
  /\ call' = [scanner |-> "ColumnNameScanner", self |-> s, text |-> text,
              types |-> ColumnNameScan(regex, _exclude_regex[s], text)]
  /\ UNCHANGED <<regex, _exclude_regex, nlp, kept>>

\* ------------------------------------------------------------- the caller
\* The caller is done with the result of the last call.
Return ==
  /\ call # NoCall
  /\ call' = NoCall
  /\ UNCHANGED <<regex, _exclude_regex, nlp, kept>>

\* The caller keeps the first result it gets for a watched identifier.
Keep ==
  /\ call.scanner = "ColumnNameScanner"
  /\ kept = NoCall
  /\ call.text \in WatchTexts
  /\ kept' = call
  /\ call' = NoCall
  /\ UNCHANGED <<regex, _exclude_regex, nlp>>

\* --------------------------------------------------------- specifications
Init ==
  /\ regex = RegexTable
  /\ _exclude_regex = [s \in Instances |-> Unbuilt]
  /\ nlp = "unloaded"
  /\ call = NoCall
  /\ kept = NoCall

\* One ColumnNameScanner instance and its scans.
Next ==
  \/ \E a \in ExcludeArgs : ColumnNameScanner__init__("s1", a)
  \/ \E text \in Texts : ColumnNameScanner_scan("s1", text)
  \/ Return

Spec == Init /\ [][Next]_vars

\* Several ColumnNameScanner instances, their scans interleaved, and a caller
\* that keeps a first result.
NextInstances ==
  \/ \E s \in Instances, a \in ExcludeArgs : ColumnNameScanner__init__(s, a)
  \/ \E s \in Instances, text \in Texts : ColumnNameScanner_scan(s, text)
  \/ Return
  \/ Keep

SpecInstances == Init /\ [][NextInstances]_vars

\* RegexScanner and its scans.
NextRegex ==
  \/ \E text \in RegexTexts, found \in [Attrs -> 0..MaxMatches] :
       RegexScanner_scan(text, found)
  \/ Return

SpecRegex == Init /\ [][NextRegex]_vars

\* NERScanner, its construction and its scans.
NextNER ==
  \/ NERScanner__init__
  \/ \E ents \in Docs : NERScanner_scan(ents)
  \/ Return

SpecNER == Init /\ [][NextNER]_vars

\* ------------------------------------------------- what the claims speak of
\* The lower-case and the upper-case form of a string.
RECURSIVE LowerStr(_)
LowerStr(t) ==
  IF t = "" THEN "" ELSE LowerChar(CharAt(t, 1)) \o LowerStr(SubSeq(t, 2, Len(t)))

UpperChar(c) ==
  IF \E u \in DOMAIN LowerOf : LowerOf[u] = c
    THEN CHOOSE u \in DOMAIN LowerOf : LowerOf[u] = c
    ELSE c

RECURSIVE UpperStr(_)
UpperStr(t) ==
  IF t = "" THEN "" ELSE UpperChar(CharAt(t, 1)) \o UpperStr(SubSeq(t, 2, Len(t)))

\* A pattern with the letters of its literals in upper case.
UpperPattern(p) ==
  IF p = None THEN None
  ELSE [p EXCEPT !.items =
          [n \in 1..Len(p.items) |->
             [p.items[n] EXCEPT !.alts = { UpperStr(a) : a \in p.items[n].alts }]]]

\* The rule table in the opposite enumeration order.
Reversed(tbl) == [n \in 1..Len(tbl) |-> tbl[Len(tbl) + 1 - n]]

HasNewline(t) == \E i \in 1..Len(t) : CharAt(t, i) = "\n"

\* text without its last character when that is a newline.
Body(t) ==
  IF Len(t) > 0 /\ CharAt(t, Len(t)) = "\n" THEN SubSeq(t, 1, Len(t) - 1) ELSE t

\* One line, with or without a final newline.
OneLine(t) == ~HasNewline(Body(t))

\* w occurs in t, letter case aside.
Contains(t, w) ==
  \E i \in 1..(Len(t) - Len(w) + 1) :
    LowerStr(SubSeq(t, i, i + Len(w) - 1)) = LowerStr(w)

\* t begins with w, letter case aside.
StartsWith(t, w) ==
  Len(w) <= Len(t) /\ LowerStr(SubSeq(t, 1, Len(w))) = LowerStr(w)

\* The literal words a pattern's groups spell, one alternative of each in a row.
RECURSIVE WordsFrom(_, _)
WordsFrom(items, k) ==
  IF k > Len(items) THEN { "" }
  ELSE IF items[k].k = "alt"
    THEN { a \o w : a \in items[k].alts, w \in WordsFrom(items, k + 1) }
    ELSE WordsFrom(items, k + 1)

Tokens(p) == WordsFrom(p.items, 1)

\* What "^.*(tokens).*$" asks of a text: one line that holds one of the tokens.
TokenOnLine(p, t) == OneLine(t) /\ \E w \in Tokens(p) : Contains(Body(t), w)

\* The same with no character left outside the match: no newline at all.
TokenSpansAll(p, t) == ~HasNewline(t) /\ \E w \in Tokens(p) : Contains(t, w)

\* The categories whose rule-table pattern accepts t.
Matching(tbl, t) == { tbl[n].type : n \in { m \in 1..Len(tbl) : TokenOnLine(tbl[m].pattern, t) } }

\* What an exclusion pattern of the model asks of a text to match it at its
\* start: a bare literal asks for the literal as a prefix, "^literal.*$" for the
\* prefix and one line.
ExclusionMatches(e, t) ==
  /\ \E w \in Tokens(e) : StartsWith(t, w)
  /\ (\E n \in 1..Len(e.items) : e.items[n].k = "eol") => OneLine(t)

\* The same when the whole text has to be matched, first character to last.
ExclusionSpansAll(e, t) ==
  IF \E n \in 1..Len(e.items) : e.items[n].k = "dotstar"
    THEN (\E w \in Tokens(e) : StartsWith(t, w)) /\ ~HasNewline(t)
    ELSE \E w \in Tokens(e) : LowerStr(t) = LowerStr(w)

IsColumnCall == call.scanner = "ColumnNameScanner"

\* The exclusion pattern of the instance the last call was made on.
CallExclude == _exclude_regex[call.self]

\* ------------------------------------------------------------------ claims
\* C1: on a scanner built with an exclusion pattern, a category is in the result
\* of scan if and only if its rule-table pattern accepts the text and the
\* exclusion pattern does not match the text; the result is either empty or the
\* very result a scanner without exclusion gives, never a part of it.
C1_ExclusionVetoesAll ==
  (IsColumnCall /\ CallExclude # None) =>
    /\ \A n \in 1..Len(regex) :
         regex[n].type \in call.types <=>
           (TokenOnLine(regex[n].pattern, call.text)
              /\ ~ExclusionMatches(CallExclude, call.text))
    /\ call.types =
         IF ExclusionMatches(CallExclude, call.text) THEN {}
         ELSE ColumnNameScan(regex, None, call.text)

\* "user_email" under the exclusion pattern "^user_.*$": everything vetoed.
C1_Witness ==
  /\ IsColumnCall
  /\ CallExclude = compile(<<Bol, Alt({ "user_" }), DotStar, Eol>>, TRUE)
  /\ call.text = "user_email"
  /\ call.types = {}

\* C2: on a scanner built without exclusion, the result of scan is exactly the
\* set of the categories whose rule-table pattern accepts the text, all of them
\* together; for "user_email" both USER_NAME and EMAIL are in it.
C2_AllMatchingCategories ==
  (IsColumnCall /\ CallExclude = None) =>
    /\ call.types = Matching(regex, call.text)
    /\ call.text = "user_email" => { "USER_NAME", "EMAIL" } \subseteq call.types

C2_Witness ==
  /\ IsColumnCall
  /\ CallExclude = None
  /\ call.text = "user_email"
  /\ call.types = { "USER_NAME", "EMAIL" }

\* The exclusion pattern has vetoed categories that would have been reported.
VetoSeen ==
  /\ IsColumnCall
  /\ CallExclude # None
  /\ Matching(regex, call.text) # {}
  /\ call.types = {}

\* C3 as stated: the exclusion pattern vetoes only when the whole text, first
\* character to last, matches it; a match of a proper prefix vetoes nothing.
C3_WholeStringExclusion ==
  VetoSeen => ExclusionSpansAll(CallExclude, call.text)

\* C3, amended: the exclusion pattern is anchored at the first character only.
\* Where there are categories to report, they are vetoed exactly when the
\* exclusion pattern matches from the first character on, be it only a proper
\* prefix of the text; an occurrence that starts later vetoes nothing.
C3_StartAnchoredExclusion ==
  (IsColumnCall /\ CallExclude # None /\ Matching(regex, call.text) # {}) =>
    /\ call.types = {} <=> ExclusionMatches(CallExclude, call.text)
    /\ (\A w \in Tokens(CallExclude) : ~StartsWith(call.text, w)) =>
         call.types = Matching(regex, call.text)

\* The bare pattern "user" vetoes "user_email", of which it matches a proper prefix.
C3_Witness ==
  /\ VetoSeen
  /\ CallExclude = compile(<<Alt({ "user" })>>, TRUE)
  /\ call.text = "user_email"

\* C4 as stated: a category is reported only if its pattern is satisfied by the
\* whole text, from the first character to the last.
C4_WholeStringCategory ==
  IsColumnCall =>
    \A n \in 1..Len(regex) :
      regex[n].type \in call.types => TokenSpansAll(regex[n].pattern, call.text)

\* C4, amended: a category is reported only if the text, up to one newline that
\* may end it, is a single line holding a token of the category; a token in a
\* text whose other lines the pattern cannot take in reports nothing.
C4_WholeLineCategory ==
  IsColumnCall =>
    \A n \in 1..Len(regex) :
      /\ regex[n].type \in call.types => TokenOnLine(regex[n].pattern, call.text)
      /\ ((\E w \in Tokens(regex[n].pattern) : Contains(call.text, w))
            /\ ~OneLine(call.text)) => regex[n].type \notin call.types

\* "Phone" on the second line of a text: the token is there, nothing is reported.
C4_Witness ==
  /\ IsColumnCall
  /\ CallExclude = None
  /\ call.text = "\nPhone"
  /\ call.types = {}

\* The string with upper case at the odd positions and lower case at the even.
RECURSIVE MixedStr(_, _)
MixedStr(t, odd) ==
  IF t = "" THEN ""
  ELSE (IF odd THEN UpperChar(CharAt(t, 1)) ELSE LowerChar(CharAt(t, 1)))
         \o MixedStr(SubSeq(t, 2, Len(t)), ~odd)

\* C9: matching is case-insensitive: the text in upper case, in lower case and
\* in mixed case, and the exclusion pattern with its literals in upper case,
\* give the result the call gave.
C9_CaseInsensitive ==
  IsColumnCall =>
    /\ ColumnNameScan(regex, CallExclude, UpperStr(call.text)) = call.types
    /\ ColumnNameScan(regex, CallExclude, LowerStr(call.text)) = call.types
    /\ ColumnNameScan(regex, CallExclude, MixedStr(call.text, TRUE)) = call.types
    /\ ColumnNameScan(regex, UpperPattern(CallExclude), call.text) = call.types

\* A text in mixed case that is reported, under an exclusion pattern.
C9_Witness ==
  /\ IsColumnCall
  /\ CallExclude # None
  /\ call.text = "Phonefname"
  /\ call.types = { "PHONE", "PERSON" }

\* C10: "fname" on a scanner without exclusion gives exactly {PERSON}: the PERSON
\* pattern matches and none of the ten other patterns does.
C10_Fname ==
  (IsColumnCall /\ CallExclude = None /\ call.text = "fname") =>
    /\ call.types = { "PERSON" }
    /\ Cardinality({ n \in 1..Len(regex) : regex[n].type # "PERSON" }) = 10
    /\ \A n \in 1..Len(regex) :
         match(regex[n].pattern, "fname") <=> regex[n].type = "PERSON"

C10_Witness ==
  /\ IsColumnCall
  /\ CallExclude = None
  /\ call.text = "fname"
  /\ call.types = { "PERSON" }

\* The PiiTypes member each CommonRegex attribute stands for in RegexScanner.scan.
AttrType ==
  [a \in Attrs |->
     CASE a = "phones" -> "PHONE" [] a = "emails" -> "EMAIL"
       [] a = "credit_cards" -> "CREDIT_CARD" [] a = "street_addresses" -> "ADDRESS"]

IsRegexCall == call.scanner = "RegexScanner"

\* C5: RegexScanner.scan returns exactly the categories among PHONE, EMAIL,
\* CREDIT_CARD and ADDRESS whose pattern matched at least once in the text, each
\* once, none else, and nothing when none of the four patterns matched.
C5_ExactlyMatchedCategories ==
  IsRegexCall =>
    /\ { call.types[i] : i \in 1..Len(call.types) } =
         { AttrType[a] : a \in { b \in Attrs : call.found[b] > 0 } }
    /\ \A i, j \in 1..Len(call.types) : call.types[i] = call.types[j] => i = j
    /\ (\A a \in Attrs : call.found[a] = 0) => call.types = <<>>

\* The PiiTypes member NERScanner.scan gives for an entity label.
EntityTag ==
  [l \in { "PERSON", "GPE", "DATE" } |->
     CASE l = "PERSON" -> "PERSON" [] l = "GPE" -> "LOCATION"
       [] l = "DATE" -> "BIRTH_DATE"]

IsNERCall == call.scanner = "NERScanner"

\* C6: NERScanner.scan returns exactly the image of the entities' labels under
\* PERSON -> PERSON, GPE -> LOCATION, DATE -> BIRTH_DATE: other labels give
\* nothing, repeated labels one tag, no mapped label the empty result.
C6_EntityImage ==
  IsNERCall =>
    call.types =
      { EntityTag[l] :
          l \in { call.ents[n] : n \in 1..Len(call.ents) } \cap DOMAIN EntityTag }

\* A person twice and a date.
C6_Witness ==
  /\ IsNERCall
  /\ call.ents = <<"PERSON", "DATE", "PERSON">>
  /\ call.types = { "PERSON", "BIRTH_DATE" }

\* The members of a result, be it held as a sequence or as a set.
ResultMembers ==
  IF IsRegexCall THEN { call.types[i] : i \in 1..Len(call.types) } ELSE call.types

\* The text of the last call matched nothing the scanner looks for.
NothingMatched ==
  CASE IsRegexCall -> \A a \in Attrs : call.found[a] = 0
    [] IsNERCall -> \A n \in 1..Len(call.ents) : call.ents[n] \notin DOMAIN EntityTag
    [] IsColumnCall -> Matching(regex, call.text) = {}

\* C7: scan is total: every call, the one on the empty text included, ends with
\* a collection of PiiTypes members, and with the empty one when the text
\* matched nothing.
C7_ScanTotal ==
  call # NoCall =>
    /\ ResultMembers \subseteq PiiTypes
    /\ NothingMatched => ResultMembers = {}

\* The last call and the kept one had the same text and the same exclusion pattern.
SameQuestion ==
  /\ IsColumnCall
  /\ kept # NoCall
  /\ call.text = kept.text
  /\ _exclude_regex[call.self] = _exclude_regex[kept.self]

\* A later call that asks what the kept call asked gets the kept answer.
KeptAgrees == SameQuestion => call.types = kept.types

\* The result is that of the rule table enumerated in the opposite order.
OrderIndependent ==
  IsColumnCall =>
    call.types = ColumnNameScan(Reversed(regex), _exclude_regex[call.self], call.text)

\* No step changes the rule table or the exclusion pattern of a constructed instance.
ConfigurationKept ==
  /\ regex' = regex
  /\ \A s \in Instances :
       _exclude_regex[s] # Unbuilt => _exclude_regex'[s] = _exclude_regex[s]

\* C8: ColumnNameScanner.scan is stateless and idempotent: after any sequence
\* of scans, interleaved over instances with different exclusion patterns, a
\* scan returns what the first scan of the same text returned, the result
\* depends on the text and the instance's exclusion pattern only, not on the
\* enumeration order of the rule table, and no scan changes the rule table or
\* an exclusion pattern.
C8_StatelessScan ==
  /\ [](KeptAgrees /\ OrderIndependent /\ regex = RegexTable)
  /\ [][ConfigurationKept]_vars

\* Both instances are built, with different exclusion patterns, and the
\* instance of the kept call is asked the kept question again.
C8_Witness ==
  /\ SameQuestion
  /\ call.self = kept.self
  /\ \A s \in Instances : _exclude_regex[s] # Unbuilt
  /\ _exclude_regex["s1"] # _exclude_regex["s2"]
  /\ call.types = { "USER_NAME", "EMAIL" }
====
